---- MODULE Spec2Model ----
(***************************************************************************)
(* Model of merge_pull.py: a linear script that drives git through the    *)
(* Command Runner git() to squash or rebase a feature branch, push it to  *)
(* the remote feature branch and the remote target branch, switch to the  *)
(* target branch and optionally delete the feature branch.                *)
(*                                                                         *)
(* Python strings are sequences of tokens (a token is a character, or a   *)
(* word that the program never takes apart, such as a commit id).  The    *)
(* repository is an object store (commit id -> parents and message), the  *)
(* local branches, the checked-out branch, the remote-tracking refs and   *)
(* the branches of the remote.                                            *)
(***************************************************************************)
EXTENDS Integers, Sequences, FiniteSets, TLC

\* ------------------------------------------------------------- bounds
MaxAhead == 2       \* commits of the feature branch beyond its fork point
MaxUpstream == 1    \* commits of the remote target branch beyond the root
MaxLines == 2       \* lines typed into the free-form message entry
MaxRuns == 2        \* runs of the tool in a row

\* ------------------------------------------------------------ strings
NL == "\n"
None == <<"None">>                  \* Python's None / a name not yet bound
NoRef == <<>>                       \* a ref that does not exist
Whitespace == {" ", NL}

\* bytes.rstrip(): drop trailing whitespace (the line terminator included)
RStrip(s) ==
    LET kept == {i \in 1..Len(s) : s[i] \notin Whitespace}
    IN IF kept = {} THEN <<>>
       ELSE SubSeq(s, 1, CHOOSE i \in kept : \A j \in kept : j <= i)

\* successive proc.stdout.readline() results until the empty read: each line
\* keeps its terminator; a last unterminated piece is a line too
ReadLines(s) ==
    LET ends == {i \in 1..Len(s) : s[i] = NL \/ i = Len(s)}
        End(k) == CHOOSE e \in ends : Cardinality({x \in ends : x <= e}) = k
        Start(k) == IF k = 1 THEN 1 ELSE End(k - 1) + 1
    IN <<>> \o [k \in 1..Cardinality(ends) |-> SubSeq(s, Start(k), End(k))]

\* '\n'.join(lines)
JoinNL(lines) ==
    LET joined[k \in 0..Len(lines)] ==
            IF k = 0 THEN <<>>
            ELSE IF k = 1 THEN lines[1]
            ELSE joined[k - 1] \o <<NL>> \o lines[k]
    IN joined[Len(lines)]

\* str.lower() on the answers the prompts can receive
LowerChar(c) == IF c = "Y" THEN "y" ELSE IF c = "N" THEN "n" ELSE c
Lower(s) == [i \in 1..Len(s) |-> LowerChar(s[i])]

\* Python truthiness of the message: None and '' are both false
Truthy(m) == m # None /\ m # <<>>

\* ----------------------------------------------------- Command Runner
Blank == <<>>                       \* print() / print('')
Prefix == "git> "
Diagnostic(return_code) ==
    <<"Git command terminated with exit code ", ToString(return_code), ".">>

\* the loop of lines 56-63 over the lines the subprocess writes: each line, in
\* turn, is stripped, printed behind the prefix and appended to output; the
\* result is [output, printed]
Drain(lines) ==
    [output |-> [i \in 1..Len(lines) |-> RStrip(lines[i])],
     printed |-> [i \in 1..Len(lines) |-> <<Prefix>> \o RStrip(lines[i])]]

\* mutant: the exit code is never inspected
git_IgnoresReturnCode(proc) ==
    LET drained == Drain(proc.out)
    IN [output |-> drained.output,
        printed |-> drained.printed \o <<Blank>>,
        exited |-> FALSE]

\* mutant: the exit code is inspected first, and a failed command's output is
\* neither printed nor captured
git_InspectsBeforeDraining(proc) ==
    LET drained == Drain(proc.out)
    IN IF proc.rc # 0
       THEN [output |-> <<>>,
             printed |-> <<Blank, Diagnostic(proc.rc)>>,
             exited |-> TRUE]
       ELSE [output |-> drained.output,
             printed |-> drained.printed \o <<Blank>>,
             exited |-> FALSE]

\* git(*arguments) from the first readline() on, applied to the subprocess
\* result [out, rc] (out: what readline() returns, call after call, before the
\* empty read): the stream is drained, then proc.wait() gives the exit code;
\* output is the captured lines, printed what went to the console, and exited
\* whether sys.exit(1) was called instead of returning output
git(proc) ==
    LET drained == Drain(proc.out)
    IN [output |-> drained.output,
        printed |-> drained.printed \o <<Blank>>
                    \o (IF proc.rc # 0 THEN <<Blank, Diagnostic(proc.rc)>> ELSE <<>>),
        exited |-> proc.rc # 0]

\* ---------------------------------------------------------- arguments
target_branch == <<"master">>       \* --target-branch default
remote == <<"origin">>              \* --remote default
target_branch_remote == remote \o <<"/">> \o target_branch
FeatureName == <<"feat">>
BranchNames == {target_branch, FeatureName}

\* values of --message: absent, empty, and one with trailing whitespace
MessageArgs == {None, <<>>, <<"m", " ">>}
ArgvKinds == {"ok", "usage_error", "help"}

\* ------------------------------------------------------------- stdin
EOF == <<"EOF">>
Answers == {<<"Y">>, <<"n">>, <<"y", "e", "s">>}
TypedLines == {<<"x", " ">>, <<>>}

\* ------------------------------------------------------- commit store
Sha(prefix, i) == <<prefix, ToString(i)>>
Root == <<"r">>
Upstream(i) == IF i = 0 THEN Root ELSE Sha("u", i)
CommitMsgs == {<<"a", NL>>, <<"a", " ", NL, "b", NL>>}
UpstreamMsg == <<"u", NL>>
ErrorText == <<"error:", " ", NL, "fatal:", NL>>    \* what a failing command writes

RECURSIVE Ancestors(_, _)
Ancestors(objs, c) ==
    {c} \cup UNION {Ancestors(objs, p) :
                       p \in {objs[c].parents[i] : i \in 1..Len(objs[c].parents)}}

Age(objs, c) == Cardinality(Ancestors(objs, c))

\* the commits of S from the oldest to the newest (S is a set of commits of
\* which no two have equally many ancestors)
OldestFirst(objs, S) ==
    [i \in 1..Cardinality(S) |->
        CHOOSE c \in S : Cardinality({y \in S : Age(objs, y) < Age(objs, c)}) = i - 1]

IsAncestor(objs, a, b) == a \in Ancestors(objs, b)

\* ------------------------------------------------- the git executable
\* what a revision argument names in repository r
Resolve(r, rev) ==
    IF rev = <<"HEAD">>
    THEN (IF r.head = NoRef THEN NoRef ELSE r.branches[r.head])
    ELSE IF rev \in BranchNames THEN r.branches[rev]
    ELSE IF \E b \in BranchNames : rev = remote \o <<"/">> \o b
         THEN r.tracking[CHOOSE b \in BranchNames : rev = remote \o <<"/">> \o b]
    ELSE IF rev \in DOMAIN r.objects THEN rev
    ELSE NoRef

NewSha(objs) == Sha("n", Cardinality(DOMAIN objs))
MergeMsg == <<"M", NL>>

\* the subprocess results a command can end with: one of the texts outs and
\* exit code 0 when the repository allows it to succeed, or an error text and
\* any non-zero code; the text reaches the script line by line
FailCodes == {1, 128}
Procs(canSucceed, outs) ==
    {[out |-> ReadLines(o), rc |-> 0] : o \in (IF canSucceed THEN outs ELSE {})}
    \cup {[out |-> ReadLines(ErrorText), rc |-> c] : c \in FailCodes}

\* git fetch <remote>: the remote-tracking refs follow the remote's branches
\* (a branch deleted on the remote keeps its tracking ref: no --prune)
FetchEffect(r) ==
    [r EXCEPT !.tracking = [b \in BranchNames |->
        IF r.remote_branches[b] # NoRef THEN r.remote_branches[b] ELSE r.tracking[b]]]

\* git rev-list --left-right --reverse HEAD...<upstream>: the commits on one
\* side only, oldest first, each marked with its side; how the two sides
\* interleave depends on commit dates
LeftCommits(r, upstream) ==
    Ancestors(r.objects, Resolve(r, <<"HEAD">>)) \ Ancestors(r.objects, Resolve(r, upstream))
RightCommits(r, upstream) ==
    Ancestors(r.objects, Resolve(r, upstream)) \ Ancestors(r.objects, Resolve(r, <<"HEAD">>))
Marked(mark, shas) == [i \in 1..Len(shas) |-> <<mark>> \o shas[i] \o <<NL>>]
Flatten(lines) ==
    LET flat[k \in 0..Len(lines)] == IF k = 0 THEN <<>> ELSE flat[k - 1] \o lines[k]
    IN flat[Len(lines)]
RevListOutputs(r, upstream) ==
    LET l == Marked("<", OldestFirst(r.objects, LeftCommits(r, upstream)))
        g == Marked(">", OldestFirst(r.objects, RightCommits(r, upstream)))
    IN {Flatten(lines) : lines \in {l \o g, g \o l}}

RECURSIVE Replay(_, _, _)
\* replay the commits of list, oldest first, on top of onto: new commits with
\* the same messages; the result is [objects, tip]
Replay(objs, onto, list) ==
    IF list = <<>> THEN [objects |-> objs, tip |-> onto]
    ELSE LET c == NewSha(objs)
             o == objs @@ (c :> [parents |-> <<onto>>, msg |-> objs[list[1]].msg])
         IN Replay(o, c, Tail(list))

\* git rebase <upstream> on the checked-out branch
RebaseEffect(r, upstream) ==
    LET onto == Resolve(r, upstream)
        tip == Resolve(r, <<"HEAD">>)
        res == Replay(r.objects, onto, OldestFirst(r.objects, LeftCommits(r, upstream)))
    IN IF IsAncestor(r.objects, onto, tip) THEN r
       ELSE [r EXCEPT !.objects = res.objects, !.branches[r.head] = res.tip]

\* git merge <upstream> on the checked-out branch
MergeEffect(r, upstream) ==
    LET theirs == Resolve(r, upstream)
        ours == Resolve(r, <<"HEAD">>)
        c == NewSha(r.objects)
    IN IF IsAncestor(r.objects, theirs, ours) THEN r
       ELSE IF IsAncestor(r.objects, ours, theirs) THEN [r EXCEPT !.branches[r.head] = theirs]
       ELSE [r EXCEPT !.objects = r.objects @@ (c :> [parents |-> <<ours, theirs>>, msg |-> MergeMsg]),
                      !.branches[r.head] = c]

\* git reset --soft <upstream>
ResetSoftEffect(r, upstream) == [r EXCEPT !.branches[r.head] = Resolve(r, upstream)]

\* git commit -m <msg>: one new commit on top of HEAD
CommitEffect(r, msg) ==
    LET c == NewSha(r.objects)
    IN [r EXCEPT !.objects = r.objects @@ (c :> [parents |-> <<Resolve(r, <<"HEAD">>)>>, msg |-> msg]),
                 !.branches[r.head] = c]
\* git refuses a commit whose message is empty or blank
CommitAllowed(msg) == msg # None /\ RStrip(msg) # <<>>

\* git push [--force] <remote> HEAD:<branch>
PushEffect(r, branch) ==
    [r EXCEPT !.remote_branches[branch] = Resolve(r, <<"HEAD">>),
              !.tracking[branch] = Resolve(r, <<"HEAD">>)]
\* without --force the remote accepts only a fast-forward
FastForward(r, branch) ==
    \/ r.remote_branches[branch] = NoRef
    \/ IsAncestor(r.objects, r.remote_branches[branch], Resolve(r, <<"HEAD">>))

\* mutant: the checkout is left out
CheckoutEffect_StaysOnBranch(r, branch) == r

\* git checkout <branch>
CheckoutEffect(r, branch) == [r EXCEPT !.head = branch]

\* git pull <remote> <branch> --rebase: fetch, then rebase onto the fetched tip
PullRebaseEffect(r, branch) ==
    LET f == [FetchEffect(r) EXCEPT !.tracking[branch] = r.remote_branches[branch]]
    IN RebaseEffect(f, remote \o <<"/">> \o branch)

\* git branch -d <branch>: only a branch that is not checked out and is merged
BranchDeleteAllowed(r, branch) ==
    /\ branch \in BranchNames
    /\ r.branches[branch] # NoRef
    /\ r.head # branch
    /\ IsAncestor(r.objects, r.branches[branch], Resolve(r, <<"HEAD">>))
BranchDeleteEffect(r, branch) == [r EXCEPT !.branches[branch] = NoRef]

\* git push <remote> <branch> --delete
RemoteDeleteAllowed(r, branch) ==
    branch \in BranchNames /\ r.remote_branches[branch] # NoRef
RemoteDeleteEffect(r, branch) ==
    [r EXCEPT !.remote_branches[branch] = NoRef, !.tracking[branch] = NoRef]

\* ---------------------------------------------------------------- state
VARIABLES
    repo,       \* objects, branches, head, tracking, remote_branches, midop
    prog,       \* the script's module-level names
    pc,         \* the statement the script is at
    run,        \* which run of the tool this is
    exit_code,  \* the process exit status once pc = "exit", -1 before
    issued,     \* the command lines handed to Popen in this run, in order
    runner,     \* the latest call of git(): what the subprocess wrote, its
                \* exit code, the lines printed and captured, and whether
                \* the call returned them to its caller
    stdin,      \* what input() returned (or EOF) in this run, in order
    elided,     \* 0 while every line read by the message entry is recorded;
                \* 1 or 2, in turn with every further read, once it is overlong
    outcome,    \* how the run ended
    snapshot    \* the repository when this run started

vars == <<repo, prog, pc, run, exit_code, issued, runner, stdin, elided, outcome, snapshot>>

Unbound ==
    [args |-> [kind |-> "unparsed", message |-> None, assume_yes |-> FALSE],
     message |-> None, assume_yes |-> FALSE,
     feature_branch |-> None, target_branch_ref |-> None, feature_branch_ref |-> None,
     commits |-> <<>>, first_commit_on_branch |-> None, head_sha1 |-> None,
     msg_of_first_commit |-> None, contents |-> <<>>]

\* git() has not been called yet in this run
NotCalled ==
    [stream |-> <<>>, return_code |-> 0, printed |-> <<>>, output |-> <<>>,
     returned |-> FALSE]

\* the repositories a run can start in
Feature(fork, i) == IF i = 0 THEN Upstream(fork) ELSE Sha("f", i)
InitObjects(nUp, fork, k, msgs) ==
    (Root :> [parents |-> <<>>, msg |-> UpstreamMsg])
    @@ [c \in {Upstream(i) : i \in 1..nUp} |->
          [parents |-> <<Upstream((CHOOSE i \in 1..nUp : Upstream(i) = c) - 1)>>,
           msg |-> UpstreamMsg]]
    @@ [c \in {Feature(fork, i) : i \in 1..k} |->
          [parents |-> <<Feature(fork, (CHOOSE i \in 1..k : Feature(fork, i) = c) - 1)>>,
           msg |-> msgs[CHOOSE i \in 1..k : Feature(fork, i) = c]]]

\* the feature branch may hold a merge of the target branch (as fetched)
MergedIn == Sha("g", 1)
FeatureTip(fork, k, merged) == IF merged THEN MergedIn ELSE Feature(fork, k)
InitRepo(nUp, fork, t, l, k, msgs, hasTarget, h, merged) ==
    [objects |-> IF merged
                 THEN InitObjects(nUp, fork, k, msgs)
                      @@ (MergedIn :> [parents |-> <<Feature(fork, k), Upstream(t)>>,
                                       msg |-> MergeMsg])
                 ELSE InitObjects(nUp, fork, k, msgs),
     branches |-> [b \in BranchNames |->
                    IF b = FeatureName THEN FeatureTip(fork, k, merged)
                    ELSE IF hasTarget THEN Upstream(l) ELSE NoRef],
     head |-> h,
     tracking |-> [b \in BranchNames |->
                    IF b = FeatureName THEN Feature(fork, k) ELSE Upstream(t)],
     remote_branches |-> [b \in BranchNames |->
                    IF b = FeatureName THEN Feature(fork, k) ELSE Upstream(nUp)],
     midop |-> "none"]

\* the working directory is not (yet) a repository with a commit
NotARepository ==
    [objects |-> (Root :> [parents |-> <<>>, msg |-> UpstreamMsg]),
     branches |-> [b \in BranchNames |-> NoRef],
     head |-> NoRef,
     tracking |-> [b \in BranchNames |-> NoRef],
     remote_branches |-> [b \in BranchNames |-> Root],
     midop |-> "none"]

\* the messages of the feature branch's own commits: the first one's varies
LaterMsg == <<"a", NL>>
FeatureMsgs(k, first) == [i \in 1..k |-> IF i = 1 THEN first ELSE LaterMsg]

\* nUp commits on the remote target, of which t are fetched; the local target
\* branch (when it exists) is at the root or at the last commit fetched; the
\* feature branch forks at the root or at the last commit fetched and holds k
\* commits of its own; the remote feature branch holds them too; the feature
\* or the target branch is checked out
InitRepoChoice ==
    \/ repo = NotARepository
    \/ \E nUp \in 0..MaxUpstream, k \in 0..MaxAhead, hasTarget \in BOOLEAN,
          h \in BranchNames, merged \in BOOLEAN :
       \E t \in 0..nUp :
       \E fork \in {0, t}, l \in {0, t}, first \in CommitMsgs :
          /\ h = target_branch => hasTarget
          /\ ~hasTarget => l = 0
          /\ merged => (k >= 1 /\ fork < t)
          /\ repo = InitRepo(nUp, fork, t, l, k, FeatureMsgs(k, first), hasTarget, h, merged)

Init ==
    /\ InitRepoChoice
    /\ prog = Unbound
    /\ pc = "parse"
    /\ run = 1
    /\ exit_code = -1
    /\ issued = <<>>
    /\ runner = NotCalled
    /\ stdin = <<>>
    /\ elided = 0
    /\ outcome = "running"
    /\ snapshot = repo

\* ---------------------------------------------------------------- steps
Exit(code, how) ==
    /\ pc' = "exit"
    /\ exit_code' = code
    /\ outcome' = how

Continue(next) ==
    /\ pc' = next
    /\ UNCHANGED <<exit_code, outcome>>

\* one call git(*cmdline) at statement `at`: the command line is handed to
\* Popen, the subprocess ends with one of its possible results; on a non-zero
\* exit code the run ends with sys.exit(1) (the repository is left as the
\* failed command left it), otherwise the caller goes on with the output
\* mutant: a failed command puts the repository back as the run found it
AfterFailure_RollsBack(r, midops) == {snapshot}

\* sys.exit(1) after a failed command: nothing is rolled back; the repository
\* is as the failed command left it (midops: the operations it may leave
\* unfinished, such as a rebase stopped by a conflict)
AfterFailure(r, midops) == {r} \cup {[r EXCEPT !.midop = o] : o \in midops}

\* ' '.join(arg for arg in cmdline), 'git' in front
JoinSpace(cmdline) ==
    LET joined[k \in 0..Len(cmdline)] ==
            IF k = 0 THEN <<"git">> ELSE joined[k - 1] \o <<" ">> \o cmdline[k]
    IN joined[Len(cmdline)]

\* what git() prints before it reads from the subprocess
Header(cmdline) == <<Blank, JoinSpace(cmdline), Blank>>

\* one call git(*cmdline) whose subprocess ends with proc: the command line
\* is printed and handed to Popen, the output is drained and proc.wait()
\* gives the exit code
Called(cmdline, proc) ==
    /\ issued' = Append(issued, [cmdline |-> cmdline, return_code |-> proc.rc])
    /\ runner' = [stream |-> proc.out,
                  return_code |-> proc.rc,
                  printed |-> Header(cmdline) \o git(proc).printed,
                  output |-> git(proc).output,
                  returned |-> ~git(proc).exited]
    /\ UNCHANGED <<run, stdin, elided, snapshot>>

\* the call ended the run with sys.exit(1)
Failed(midops) ==
    /\ Exit(1, "git_failed")
    /\ repo' \in AfterFailure(repo, midops)
    /\ UNCHANGED prog

\* the call returned its output: the repository is as the command left it
Returned(next, okRepo) ==
    /\ Continue(next)
    /\ repo' = okRepo

Line(str) == str \o <<NL>>

\* args = args_parser.parse_args() and the four module-level names
ArgSet ==
    {[kind |-> "ok", message |-> m, assume_yes |-> y] : m \in MessageArgs, y \in BOOLEAN}
    \cup {[kind |-> k, message |-> None, assume_yes |-> FALSE] : k \in ArgvKinds \ {"ok"}}
ParseArgs ==
    /\ pc = "parse"
    /\ \E a \in (IF run = 1 THEN ArgSet ELSE {prog.args}) :
         /\ prog' = [prog EXCEPT !.args = a, !.message = a.message, !.assume_yes = a.assume_yes]
         /\ CASE a.kind = "usage_error" -> Exit(2, "usage")
              [] a.kind = "help" -> Exit(0, "help")
              [] OTHER -> Continue("rev_parse_abbrev_ref")
    /\ UNCHANGED <<repo, run, issued, runner, elided, stdin, snapshot>>

\* feature_branch = git('rev-parse', '--abbrev-ref', '--verify', 'HEAD')[0]
RevParseAbbrevRef ==
    /\ pc = "rev_parse_abbrev_ref"
    /\ \E proc \in Procs(repo.head # NoRef, {Line(repo.head)}) :
          /\ Called(<<<<"rev-parse">>, <<"--abbrev-ref">>, <<"--verify">>, <<"HEAD">>>>, proc)
          /\ IF git(proc).exited
             THEN Failed({})
             ELSE /\ Returned("rev_parse_target", repo)
                  /\ prog' = [prog EXCEPT !.feature_branch = git(proc).output[1]]

\* target_branch_ref = git('rev-parse', target_branch)[0]
RevParseTarget ==
    /\ pc = "rev_parse_target"
    /\ \E proc \in Procs(Resolve(repo, target_branch) # NoRef, {Line(Resolve(repo, target_branch))}) :
          /\ Called(<<<<"rev-parse">>, target_branch>>, proc)
          /\ IF git(proc).exited
             THEN Failed({})
             ELSE /\ Returned("rev_parse_feature", repo)
                  /\ prog' = [prog EXCEPT !.target_branch_ref = git(proc).output[1]]

\* feature_branch_ref = git('rev-parse', feature_branch)[0]
RevParseFeature ==
    /\ pc = "rev_parse_feature"
    /\ \E proc \in Procs(Resolve(repo, prog.feature_branch) # NoRef, {Line(Resolve(repo, prog.feature_branch))}) :
          /\ Called(<<<<"rev-parse">>, prog.feature_branch>>, proc)
          /\ IF git(proc).exited
             THEN Failed({})
             ELSE /\ Returned("guard", repo)
                  /\ prog' = [prog EXCEPT !.feature_branch_ref = git(proc).output[1]]

\* mutant: the guard compares the branch names instead of the commit ids
SameRef_ComparesNames == prog.feature_branch = target_branch

\* if target_branch_ref == feature_branch_ref: ... sys.exit(1)
SameRef == prog.target_branch_ref = prog.feature_branch_ref
\* mutant: the guard ends the run with sys.exit() and no status
Guard_ExitsZero ==
    /\ pc = "guard"
    /\ IF prog.target_branch_ref = prog.feature_branch_ref
       THEN Exit(0, "guard") ELSE Continue("fetch")
    /\ UNCHANGED <<repo, prog, run, issued, runner, elided, stdin, snapshot>>
Guard ==
    /\ pc = "guard"
    /\ IF SameRef THEN Exit(1, "guard") ELSE Continue("fetch")
    /\ UNCHANGED <<repo, prog, run, issued, runner, elided, stdin, snapshot>>

\* git('fetch', remote)
Fetch ==
    /\ pc = "fetch"
    /\ \E proc \in Procs(TRUE, {<<>>}) :
          /\ Called(<<<<"fetch">>, remote>>, proc)
          /\ IF git(proc).exited
             THEN Failed({})
             ELSE /\ Returned("rev_list", FetchEffect(repo))
                  /\ UNCHANGED prog

\* commits = git('rev-list', '--left-right', '--reverse', 'HEAD...origin/target')
RevList ==
    /\ pc = "rev_list"
    /\ \E proc \in Procs(Resolve(repo, target_branch_remote) # NoRef, RevListOutputs(repo, target_branch_remote)) :
          /\ Called(<<<<"rev-list">>, <<"--left-right">>, <<"--reverse">>,
                   <<"HEAD", "...">> \o target_branch_remote>>, proc)
          /\ IF git(proc).exited
             THEN Failed({})
             ELSE /\ Returned("first_commit", repo)
                  /\ prog' = [prog EXCEPT !.commits = git(proc).output]

\* mutant: the first entry of either side is taken
StartsWithLeft_AnyMark(commit) == commit # <<>>

\* next(commit for commit in commits if commit.startswith('<'))[1:]
StartsWithLeft(commit) == commit # <<>> /\ commit[1] = "<"
HasLeft(cs) == \E i \in 1..Len(cs) : StartsWithLeft(cs[i])
FirstLeft(cs) ==
    cs[CHOOSE i \in 1..Len(cs) :
          StartsWithLeft(cs[i]) /\ \A j \in 1..(i - 1) : ~StartsWithLeft(cs[j])]
\* mutant: the side marker is not stripped off
first_commit_KeepsMarker(cs) == FirstLeft(cs)
first_commit(cs) == Tail(FirstLeft(cs))
\* an exhausted generator raises StopIteration, which nothing catches: the
\* interpreter prints the traceback and exits with status 1
FirstCommitOnBranch ==
    /\ pc = "first_commit"
    /\ IF HasLeft(prog.commits)
       THEN /\ prog' = [prog EXCEPT !.first_commit_on_branch = first_commit(prog.commits)]
            /\ Continue("rev_parse_head")
       ELSE /\ Exit(1, "uncaught_StopIteration")
            /\ UNCHANGED prog
    /\ UNCHANGED <<repo, run, issued, runner, elided, stdin, snapshot>>

\* if first_commit_on_branch == head_sha1: rebase, else: squash
SingleCommit(first, head_sha) == first = head_sha
ChoosePath(head_sha) ==
    IF SingleCommit(prog.first_commit_on_branch, head_sha) THEN "rebase" ELSE "show"

\* head_sha1 = git('rev-parse', 'HEAD')[0], then the choice of the path
RevParseHead ==
    /\ pc = "rev_parse_head"
    /\ \E proc \in Procs(Resolve(repo, <<"HEAD">>) # NoRef, {Line(Resolve(repo, <<"HEAD">>))}) :
          /\ Called(<<<<"rev-parse">>, <<"HEAD">>>>, proc)
          /\ IF git(proc).exited
             THEN Failed({})
             ELSE /\ Returned(ChoosePath(git(proc).output[1]), repo)
                  /\ prog' = [prog EXCEPT !.head_sha1 = git(proc).output[1]]

\* git('rebase', target_branch_remote)
Rebase ==
    /\ pc = "rebase"
    /\ \E proc \in Procs(TRUE, {<<>>}) :
          /\ Called(<<<<"rebase">>, target_branch_remote>>, proc)
          /\ IF git(proc).exited
             THEN Failed({"rebase"})
             ELSE /\ Returned("push_force", RebaseEffect(repo, target_branch_remote))
                  /\ UNCHANGED prog

\* mutant: only the first output line is kept as the message
MsgOfFirstCommit_FirstLine(output) == output[1]

\* '\n'.join(git('show', ...))
MsgOfFirstCommit(output) == JoinNL(output)

\* msg_of_first_commit = '\n'.join(git('show', '--no-patch', '--format=%B', first))
\* (git prints the raw message and ends the entry with a newline)
Show ==
    /\ pc = "show"
    /\ \E proc \in Procs(prog.first_commit_on_branch \in DOMAIN repo.objects, {Line(repo.objects[prog.first_commit_on_branch].msg)}) :
          /\ Called(<<<<"show">>, <<"--no-patch">>, <<"--format=%B">>,
                   prog.first_commit_on_branch>>, proc)
          /\ IF git(proc).exited
             THEN Failed({})
             ELSE /\ Returned("merge", repo)
                  /\ prog' = [prog EXCEPT !.msg_of_first_commit = MsgOfFirstCommit(git(proc).output)]

\* git('merge', target_branch_remote)
Merge ==
    /\ pc = "merge"
    /\ \E proc \in Procs(TRUE, {<<>>}) :
          /\ Called(<<<<"merge">>, target_branch_remote>>, proc)
          /\ IF git(proc).exited
             THEN Failed({"merge"})
             ELSE /\ Returned("reset", MergeEffect(repo, target_branch_remote))
                  /\ UNCHANGED prog

\* git('reset', '--soft', target_branch_remote)
ResetSoft ==
    /\ pc = "reset"
    /\ \E proc \in Procs(TRUE, {<<>>}) :
          /\ Called(<<<<"reset">>, <<"--soft">>, target_branch_remote>>, proc)
          /\ IF git(proc).exited
             THEN Failed({})
             ELSE /\ Returned("resolve_message", ResetSoftEffect(repo, target_branch_remote))
                  /\ UNCHANGED prog

\* mutant: the message option is never looked at
MessageMissing_Always(m) == TRUE

\* mutant: every answer counts as a yes
Affirmed_AnyAnswer(answer) == TRUE

\* 'y' == input(...).lower()
Affirmed(answer) == Lower(answer) = <<"y">>

\* if not message
MessageMissing(m) == ~Truthy(m)

\* if not message: ... the reuse question, unless assume_yes
ResolveMessage ==
    /\ pc = "resolve_message"
    /\ UNCHANGED <<repo, run, issued, runner, elided, snapshot>>
    /\ IF ~MessageMissing(prog.message)
       THEN Continue("commit") /\ UNCHANGED <<prog, stdin>>
       ELSE IF prog.assume_yes
       THEN /\ prog' = [prog EXCEPT !.message = prog.msg_of_first_commit]
            /\ Continue("commit")
            /\ UNCHANGED stdin
       ELSE \E answer \in Answers \cup {EOF} :
            /\ stdin' = Append(stdin, answer)
            /\ IF answer = EOF
               THEN Exit(1, "uncaught_EOFError") /\ UNCHANGED prog
               ELSE IF Affirmed(answer)
               THEN /\ prog' = [prog EXCEPT !.message = prog.msg_of_first_commit]
                    /\ Continue("commit")
               ELSE /\ prog' = [prog EXCEPT !.contents = <<>>]
                    /\ Continue("enter_message")

\* a message of more than MaxLines lines: the model does not record its lines
ElidedLines == <<"...">>

\* mutant: a blank line is not appended to contents
EnterMessage_SkipsBlankLines ==
    /\ pc = "enter_message"
    /\ UNCHANGED <<repo, run, issued, runner, snapshot, exit_code, outcome>>
    /\ \E msg_line \in TypedLines \cup {EOF} :
         IF msg_line = EOF
         THEN /\ stdin' = Append(stdin, EOF)
              /\ prog' = [prog EXCEPT !.message = JoinNL(prog.contents)]
              /\ pc' = "commit"
              /\ elided' = (IF elided = 0 THEN 0 ELSE 1)
         ELSE IF Len(prog.contents) < MaxLines /\ elided = 0
         THEN /\ stdin' = Append(stdin, msg_line)
              /\ prog' = [prog EXCEPT !.contents =
                            IF msg_line = <<>> THEN @ ELSE Append(@, msg_line)]
              /\ pc' = "enter_message"
              /\ UNCHANGED elided
         ELSE /\ elided' = (IF elided = 1 THEN 2 ELSE 1)
              /\ stdin' = <<stdin[1], ElidedLines>>
              /\ prog' = [prog EXCEPT !.contents = <<ElidedLines>>]
              /\ pc' = "enter_message"

\* mutant: end-of-input does not leave the message entry loop
EnterMessage_IgnoresEndOfInput ==
    /\ pc = "enter_message"
    /\ UNCHANGED <<repo, run, issued, runner, snapshot, exit_code, outcome>>
    /\ \E msg_line \in TypedLines \cup {EOF} :
         IF msg_line = EOF
         THEN /\ stdin' = (IF stdin[Len(stdin)] = EOF THEN stdin ELSE Append(stdin, EOF))
              /\ pc' = "enter_message"
              /\ UNCHANGED <<prog, elided>>
         ELSE IF Len(prog.contents) < MaxLines /\ elided = 0
         THEN /\ stdin' = Append(stdin, msg_line)
              /\ prog' = [prog EXCEPT !.contents = Append(@, msg_line)]
              /\ pc' = "enter_message"
              /\ UNCHANGED elided
         ELSE /\ elided' = (IF elided = 1 THEN 2 ELSE 1)
              /\ stdin' = <<stdin[1], ElidedLines>>
              /\ prog' = [prog EXCEPT !.contents = <<ElidedLines>>]
              /\ pc' = "enter_message"

\* the message entry loop: input('') until EOFError, then '\n'.join(contents).
\* The loop goes on for as long as lines keep coming: up to MaxLines lines are
\* recorded one by one; with a further line the message is overlong, and from
\* then on contents and the record of the reads stand for all of its lines
EnterMessage ==
    /\ pc = "enter_message"
    /\ UNCHANGED <<repo, run, issued, runner, snapshot, exit_code, outcome>>
    /\ \E msg_line \in TypedLines \cup {EOF} :
         IF msg_line = EOF
         THEN /\ stdin' = Append(stdin, EOF)
              /\ prog' = [prog EXCEPT !.message = JoinNL(prog.contents)]
              /\ pc' = "commit"
              /\ elided' = (IF elided = 0 THEN 0 ELSE 1)
         ELSE IF Len(prog.contents) < MaxLines /\ elided = 0
         THEN /\ stdin' = Append(stdin, msg_line)
              /\ prog' = [prog EXCEPT !.contents = Append(@, msg_line)]
              /\ pc' = "enter_message"
              /\ UNCHANGED elided
         ELSE /\ elided' = (IF elided = 1 THEN 2 ELSE 1)
              /\ stdin' = <<stdin[1], ElidedLines>>
              /\ prog' = [prog EXCEPT !.contents = <<ElidedLines>>]
              /\ pc' = "enter_message"

\* git('commit', '-m', message)
Commit ==
    /\ pc = "commit"
    /\ \E proc \in Procs(CommitAllowed(prog.message), {<<>>}) :
          /\ Called(<<<<"commit">>, <<"-m">>, prog.message>>, proc)
          /\ IF git(proc).exited
             THEN Failed({})
             ELSE /\ Returned("push_force", CommitEffect(repo, prog.message))
                  /\ UNCHANGED prog

\* git('push', '--force', remote, 'HEAD:{0}'.format(feature_branch))
PushForce ==
    /\ pc = "push_force"
    /\ \E proc \in Procs(prog.feature_branch \in BranchNames, {<<>>}) :
          /\ Called(<<<<"push">>, <<"--force">>, remote, <<"HEAD", ":">> \o prog.feature_branch>>, proc)
          /\ IF git(proc).exited
             THEN Failed({})
             ELSE /\ Returned("push", PushEffect(repo, prog.feature_branch))
                  /\ UNCHANGED prog

\* the remote is shared: while the run is between its fetch and its push of
\* the target branch, someone else may push a commit to the remote target
OthersCommit == Sha("o", 1)
OthersPush ==
    /\ pc = "push"
    /\ OthersCommit \notin DOMAIN repo.objects
    /\ repo' = [repo EXCEPT
                  !.objects = @ @@ (OthersCommit :>
                                 [parents |-> <<repo.remote_branches[target_branch]>>,
                                  msg |-> UpstreamMsg]),
                  !.remote_branches[target_branch] = OthersCommit]
    /\ UNCHANGED <<prog, pc, run, exit_code, issued, runner, stdin, elided, outcome, snapshot>>

\* mutant: the push to the target branch is forced too
Push_Forced ==
    /\ pc = "push"
    /\ \E proc \in Procs(TRUE, {<<>>}) :
          /\ Called(<<<<"push">>, remote, <<"HEAD", ":">> \o target_branch>>, proc)
          /\ IF git(proc).exited
             THEN Failed({})
             ELSE /\ Returned("checkout", PushEffect(repo, target_branch))
                  /\ UNCHANGED prog

\* mutant: the checkout is skipped, the pull follows the push directly
Push_SkipsCheckout ==
    /\ pc = "push"
    /\ \E proc \in Procs(FastForward(repo, target_branch), {<<>>}) :
          /\ Called(<<<<"push">>, remote, <<"HEAD", ":">> \o target_branch>>, proc)
          /\ IF git(proc).exited
             THEN Failed({})
             ELSE /\ Returned("pull", PushEffect(repo, target_branch))
                  /\ UNCHANGED prog

\* git('push', remote, 'HEAD:{0}'.format(target_branch))
Push ==
    /\ pc = "push"
    /\ \E proc \in Procs(FastForward(repo, target_branch), {<<>>}) :
          /\ Called(<<<<"push">>, remote, <<"HEAD", ":">> \o target_branch>>, proc)
          /\ IF git(proc).exited
             THEN Failed({})
             ELSE /\ Returned("checkout", PushEffect(repo, target_branch))
                  /\ UNCHANGED prog

\* git('checkout', target_branch)
Checkout ==
    /\ pc = "checkout"
    /\ \E proc \in Procs(repo.branches[target_branch] # NoRef, {<<>>}) :
          /\ Called(<<<<"checkout">>, target_branch>>, proc)
          /\ IF git(proc).exited
             THEN Failed({})
             ELSE /\ Returned("pull", CheckoutEffect(repo, target_branch))
                  /\ UNCHANGED prog

\* git('pull', remote, target_branch, '--rebase')
Pull ==
    /\ pc = "pull"
    /\ \E proc \in Procs(repo.remote_branches[target_branch] # NoRef, {<<>>}) :
          /\ Called(<<<<"pull">>, remote, target_branch, <<"--rebase">>>>, proc)
          /\ IF git(proc).exited
             THEN Failed({"rebase"})
             ELSE /\ Returned("ask_delete", PullRebaseEffect(repo, target_branch))
                  /\ UNCHANGED prog

\* mutant: the delete question is asked even with --assume-yes
AskDelete_AlwaysAsks ==
    /\ pc = "ask_delete"
    /\ UNCHANGED <<repo, prog, run, issued, runner, elided, snapshot>>
    /\ \E answer \in Answers \cup {EOF} :
         /\ stdin' = Append(stdin, answer)
         /\ IF answer = EOF THEN Exit(1, "uncaught_EOFError")
            ELSE IF Lower(answer) = <<"y">> THEN Continue("branch_delete")
            ELSE Exit(0, "success")

\* if assume_yes or 'y' == input('Delete feature branches (y/N): ').lower()
\* declined: print('Good bye.') and the script ends, exit status 0
AskDelete ==
    /\ pc = "ask_delete"
    /\ UNCHANGED <<repo, prog, run, issued, runner, elided, snapshot>>
    /\ IF prog.assume_yes
       THEN Continue("branch_delete") /\ UNCHANGED stdin
       ELSE \E answer \in Answers \cup {EOF} :
            /\ stdin' = Append(stdin, answer)
            /\ IF answer = EOF THEN Exit(1, "uncaught_EOFError")
               ELSE IF Affirmed(answer) THEN Continue("branch_delete")
               ELSE Exit(0, "success")

\* git('branch', '-d', feature_branch)
BranchDelete ==
    /\ pc = "branch_delete"
    /\ \E proc \in Procs(BranchDeleteAllowed(repo, prog.feature_branch), {<<>>}) :
          /\ Called(<<<<"branch">>, <<"-d">>, prog.feature_branch>>, proc)
          /\ IF git(proc).exited
             THEN Failed({})
             ELSE /\ Returned("push_delete", BranchDeleteEffect(repo, prog.feature_branch))
                  /\ UNCHANGED prog

\* mutant: the remote delete names the branch that is checked out by then
PushDelete_NamesCurrentBranch ==
    /\ pc = "push_delete"
    /\ \E proc \in Procs(RemoteDeleteAllowed(repo, repo.head), {<<>>}) :
          /\ Called(<<<<"push">>, remote, repo.head, <<"--delete">>>>, proc)
          /\ IF git(proc).exited
             THEN Failed({})
             ELSE /\ Returned("good_bye", RemoteDeleteEffect(repo, repo.head))
                  /\ UNCHANGED prog

\* git('push', remote, feature_branch, '--delete')
PushDelete ==
    /\ pc = "push_delete"
    /\ \E proc \in Procs(RemoteDeleteAllowed(repo, prog.feature_branch), {<<>>}) :
          /\ Called(<<<<"push">>, remote, prog.feature_branch, <<"--delete">>>>, proc)
          /\ IF git(proc).exited
             THEN Failed({})
             ELSE /\ Returned("good_bye", RemoteDeleteEffect(repo, prog.feature_branch))
                  /\ UNCHANGED prog

\* print('Good bye.'): the script ends, exit status 0
GoodBye ==
    /\ pc = "good_bye"
    /\ Exit(0, "success")
    /\ UNCHANGED <<repo, prog, run, issued, runner, elided, stdin, snapshot>>

\* the user runs the tool again, with the same arguments, right after a run
\* that succeeded
RunAgain ==
    /\ pc = "exit"
    /\ outcome = "success"
    /\ run < MaxRuns
    /\ pc' = "parse"
    /\ run' = run + 1
    /\ prog' = [Unbound EXCEPT !.args = prog.args]
    /\ exit_code' = -1
    /\ issued' = <<>>
    /\ runner' = NotCalled
    /\ stdin' = <<>>
    /\ elided' = 0
    /\ outcome' = "running"
    /\ snapshot' = repo
    /\ UNCHANGED repo

Next ==
    \/ ParseArgs
    \/ RevParseAbbrevRef
    \/ RevParseTarget
    \/ RevParseFeature
    \/ Guard
    \/ Fetch
    \/ RevList
    \/ FirstCommitOnBranch
    \/ RevParseHead
    \/ Rebase
    \/ Show
    \/ Merge
    \/ ResetSoft
    \/ ResolveMessage
    \/ EnterMessage
    \/ Commit
    \/ PushForce
    \/ OthersPush
    \/ Push
    \/ Checkout
    \/ Pull
    \/ AskDelete
    \/ BranchDelete
    \/ PushDelete
    \/ GoodBye
    \/ RunAgain

Spec == Init /\ [][Next]_vars

\* the steps of the script itself: all of Next but the user's next run and
\* what others do to the remote
Script ==
    \/ ParseArgs
    \/ RevParseAbbrevRef
    \/ RevParseTarget
    \/ RevParseFeature
    \/ Guard
    \/ Fetch
    \/ RevList
    \/ FirstCommitOnBranch
    \/ RevParseHead
    \/ Rebase
    \/ Show
    \/ Merge
    \/ ResetSoft
    \/ ResolveMessage
    \/ EnterMessage
    \/ Commit
    \/ PushForce
    \/ Push
    \/ Checkout
    \/ Pull
    \/ AskDelete
    \/ BranchDelete
    \/ PushDelete
    \/ GoodBye

\* the script is a single thread that blocks only in Popen/readline/wait and
\* in input(): every subprocess closes its output and exits, and every read
\* from standard input returns a line or end-of-input, so the script always
\* takes its next step
LiveSpec == Spec /\ WF_vars(Script)

\* ------------------------------------------------- what a run has done
Cmd(i) == issued[i].cmdline
Verb(i) == issued[i].cmdline[1]
Succeeded(i) == issued[i].return_code = 0
AllSucceeded == \A i \in 1..Len(issued) : Succeeded(i)
Done(verb) == \E i \in 1..Len(issued) : Verb(i) = verb /\ Succeeded(i)
ThreeRevParses ==
    /\ Len(issued) = 3
    /\ \A i \in 1..3 : Verb(i) = <<"rev-parse">> /\ Succeeded(i)
MutatingVerbs ==
    {<<"fetch">>, <<"rebase">>, <<"merge">>, <<"reset">>, <<"commit">>, <<"push">>,
     <<"checkout">>, <<"pull">>, <<"branch">>}
RefsResolved == prog.feature_branch_ref # None

\* C1: whenever the target branch and the current branch have resolved to the
\* same commit id, only the three rev-parse queries have been issued, the run
\* is at the guard or has ended, and when it has ended its exit code is 1
C1_SameRefExitsBeforeAnyCommand ==
    (RefsResolved /\ prog.target_branch_ref = prog.feature_branch_ref) =>
        /\ ThreeRevParses
        /\ \A i \in 1..Len(issued) : Verb(i) \notin MutatingVerbs
        /\ pc \in {"guard", "exit"}
        /\ pc = "exit" => exit_code = 1
        /\ repo = snapshot

\* C1 witness: a run on a feature branch that points at the target's commit
\* has ended at the guard
C1_Witness ==
    /\ pc = "exit"
    /\ exit_code = 1
    /\ RefsResolved
    /\ prog.target_branch_ref = prog.feature_branch_ref
    /\ prog.feature_branch = FeatureName

\* C2: a command that exited non-zero is the last command the run issued, and
\* the run has ended with exit code 1
C2_FailedCommandEndsRun ==
    \A i \in 1..Len(issued) :
        ~Succeeded(i) => (i = Len(issued) /\ pc = "exit" /\ exit_code = 1)

\* C2 witness: the force-push failed after the squash commit was made
C2_Witness ==
    /\ pc = "exit"
    /\ Len(issued) > 0
    /\ Verb(Len(issued)) = <<"push">>
    /\ ~Succeeded(Len(issued))
    /\ Done(<<"commit">>)

PushForceCmd == <<<<"push">>, <<"--force">>, remote, <<"HEAD", ":">> \o FeatureName>>
PushTargetCmd == <<<<"push">>, remote, <<"HEAD", ":">> \o target_branch>>
PushDeleteCmd == <<<<"push">>, remote, FeatureName, <<"--delete">>>>
RebaseCmd == <<<<"rebase">>, target_branch_remote>>
PullCmd == <<<<"pull">>, remote, target_branch, <<"--rebase">>>>
DoneCmd(c) == \E i \in 1..Len(issued) : Cmd(i) = c /\ Succeeded(i)

\* the commits the feature branch is ahead of the remote target by, as the
\* fetch of this run finds them, and the oldest of them
Ahead == LeftCommits(FetchEffect(snapshot), target_branch_remote)
FirstUnique == OldestFirst(snapshot.objects, Ahead)[1]
MoreThanOneAhead == Done(<<"fetch">>) /\ Cardinality(Ahead) > 1
OneAhead == Done(<<"fetch">>) /\ Cardinality(Ahead) = 1
\* the reuse question is asked when no usable message came with the command
\* line and --assume-yes is off; it is the first read from standard input
ReuseConfirmed ==
    \/ prog.args.assume_yes
    \/ stdin # <<>> /\ stdin[1] \in {<<"y">>, <<"Y">>}
\* a message with the trailing whitespace of every line removed
Trimmed(raw) ==
    JoinNL([i \in 1..Len(ReadLines(raw \o <<NL>>)) |-> RStrip(ReadLines(raw \o <<NL>>)[i])])
PushedTip == repo.remote_branches[target_branch]
OneNewCommitOnTargetTip ==
    /\ PushedTip \notin DOMAIN snapshot.objects
    /\ repo.objects[PushedTip].parents = <<snapshot.remote_branches[target_branch]>>
    /\ IF DoneCmd(PushDeleteCmd)
       THEN repo.remote_branches[FeatureName] = NoRef
       ELSE repo.remote_branches[FeatureName] = PushedTip

\* C3 as stated: more than one commit ahead and both pushes done: the remote
\* branches hold the target's tip plus one new commit whose message is the
\* --message value or, reuse confirmed, the first unique commit's message
\* verbatim (the free-form entry is left open)
C3_Original ==
    (MoreThanOneAhead /\ DoneCmd(PushTargetCmd)) =>
        /\ OneNewCommitOnTargetTip
        /\ \/ repo.objects[PushedTip].msg = prog.args.message
           \/ /\ ReuseConfirmed
              /\ repo.objects[PushedTip].msg = snapshot.objects[FirstUnique].msg
           \/ ~Truthy(prog.args.message) /\ ~ReuseConfirmed

\* C3 amended: more than one commit ahead and both pushes done: the remote
\* branches hold the target's tip plus one new commit; its message is the
\* --message value when that is not empty, and otherwise, reuse confirmed, the
\* first unique commit's message with each line's trailing whitespace removed
C3_SquashPushesOneCommit ==
    (MoreThanOneAhead /\ DoneCmd(PushTargetCmd)) =>
        /\ OneNewCommitOnTargetTip
        /\ Truthy(prog.args.message) =>
              repo.objects[PushedTip].msg = prog.args.message
        /\ (~Truthy(prog.args.message) /\ ReuseConfirmed) =>
              repo.objects[PushedTip].msg = Trimmed(snapshot.objects[FirstUnique].msg)
        /\ \E i \in 1..Len(issued) :
              Cmd(i) = <<<<"commit">>, <<"-m">>, repo.objects[PushedTip].msg>>

\* C3 witness: a message with trailing whitespace on a line was reused and
\* the squashed commit is on both remote branches
C3_Witness ==
    /\ MoreThanOneAhead
    /\ DoneCmd(PushTargetCmd)
    /\ ~Truthy(prog.args.message)
    /\ ReuseConfirmed
    /\ snapshot.objects[FirstUnique].msg # Trimmed(snapshot.objects[FirstUnique].msg)
    /\ repo.remote_branches[FeatureName] = PushedTip

\* C4: with exactly one commit ahead, once HEAD is resolved the run is on the
\* rebase path: no show, merge, reset or commit is issued or about to be, the
\* rebase onto the remote target has been issued once the run is past it, and
\* nothing is read from standard input before the delete question
C4_OneAheadRebasesOnly ==
    (OneAhead /\ prog.head_sha1 # None) =>
        /\ pc \notin {"show", "merge", "reset", "resolve_message", "enter_message", "commit"}
        /\ \A i \in 1..Len(issued) :
              Verb(i) \notin {<<"show">>, <<"merge">>, <<"reset">>, <<"commit">>}
        /\ pc # "rebase" => \E i \in 1..Len(issued) : Cmd(i) = RebaseCmd
        /\ Len(stdin) <= 1
        /\ stdin # <<>> => DoneCmd(PullCmd)

\* C4 witness: one commit ahead, no --message, no --assume-yes, and the run
\* succeeded
C4_Witness ==
    /\ OneAhead
    /\ pc = "exit"
    /\ exit_code = 0
    /\ prog.args.message = None
    /\ ~prog.args.assume_yes
    /\ DoneCmd(RebaseCmd)

\* C5: in a run started right after a successful run, with the same
\* arguments, the repository and the remote stay as that run left them, only
\* rev-parse queries are issued, the run never gets past the guard, it ends
\* with exit code 1, and when its queries succeed it ends at the guard
C5_RerunStopsAtGuard ==
    run > 1 =>
        /\ repo = snapshot
        /\ \A i \in 1..Len(issued) : Verb(i) = <<"rev-parse">>
        /\ pc \in {"parse", "rev_parse_abbrev_ref", "rev_parse_target",
                   "rev_parse_feature", "guard", "exit"}
        /\ pc = "exit" => exit_code = 1
        /\ (pc = "exit" /\ AllSucceeded) =>
              (ThreeRevParses /\ prog.target_branch_ref = prog.feature_branch_ref)

\* C5 witness: the second run has ended at the guard
C5_Witness ==
    /\ run = 2
    /\ pc = "exit"
    /\ ThreeRevParses
    /\ prog.target_branch_ref = prog.feature_branch_ref

\* C6 as stated: whenever --message was given, the message entry is never
\* entered, the commit is reached with nothing read from standard input and
\* every commit command carries exactly the given value
C6_Original ==
    (prog.args.kind = "ok" /\ prog.args.message # None) =>
        /\ pc # "enter_message"
        /\ pc = "commit" => (stdin = <<>> /\ prog.message = prog.args.message)
        /\ \A i \in 1..Len(issued) :
              Verb(i) = <<"commit">> => Cmd(i) = <<<<"commit">>, <<"-m">>, prog.args.message>>

\* C6 amended: the same for every value of --message that is not empty; the
\* reuse question and the message entry are reached only without --message
\* or with an empty one
C6_NonEmptyMessageUsedVerbatim ==
    /\ (prog.args.kind = "ok" /\ prog.args.message # None /\ prog.args.message # <<>>) =>
        /\ pc # "enter_message"
        /\ pc = "commit" => (stdin = <<>> /\ prog.message = prog.args.message)
        /\ \A i \in 1..Len(issued) :
              Verb(i) = <<"commit">> => Cmd(i) = <<<<"commit">>, <<"-m">>, prog.args.message>>
    /\ (pc = "enter_message" \/ (pc = "commit" /\ stdin # <<>>)) =>
          prog.args.message \in {None, <<>>}

\* C6 witness: a squash commit was made with the given message, trailing
\* whitespace included, and nothing was read from standard input
C6_Witness ==
    /\ prog.args.message = <<"m", " ">>
    /\ ~prog.args.assume_yes
    /\ \E i \in 1..Len(issued) :
          Cmd(i) = <<<<"commit">>, <<"-m">>, <<"m", " ">>>> /\ Succeeded(i)
    /\ pc = "push_force"
    /\ stdin = <<>>

\* how a run can end, read off what it issued and read
SomeCommandFailed == \E i \in 1..Len(issued) : ~Succeeded(i)
GuardTriggered ==
    ThreeRevParses /\ RefsResolved /\ prog.target_branch_ref = prog.feature_branch_ref
NoLocalSideEntry ==
    /\ Len(issued) = 5
    /\ AllSucceeded
    /\ Verb(5) = <<"rev-list">>
    /\ \A i \in 1..Len(prog.commits) : prog.commits[i][1] # "<"
\* end-of-input at one of the two yes/no questions (in the message entry it
\* is the regular end of the message)
EndOfInputAtQuestion ==
    /\ stdin # <<>>
    /\ stdin[Len(stdin)] = EOF
    /\ AllSucceeded
    /\ \/ Len(stdin) = 1 /\ Len(issued) > 0 /\ Verb(Len(issued)) = <<"reset">>
       \/ Len(issued) > 0 /\ Cmd(Len(issued)) = PullCmd
DeleteAffirmed ==
    \/ prog.args.assume_yes
    \/ stdin # <<>> /\ stdin[Len(stdin)] \in {<<"y">>, <<"Y">>}
FullSuccess ==
    /\ AllSucceeded
    /\ ~GuardTriggered
    /\ DoneCmd(PullCmd)
    /\ IF DeleteAffirmed
       THEN Cmd(Len(issued)) = PushDeleteCmd
       ELSE Cmd(Len(issued)) = PullCmd /\ stdin # <<>> /\ stdin[Len(stdin)] # EOF

\* C7 as stated, for the runs whose command line the parser accepted: a run
\* that has ended has exit code 0 or 1; 0 exactly when the guard did not
\* trigger and every command through the pull (and the deletes, when
\* affirmed) succeeded; 1 only when a command failed or the guard triggered
C7_Original ==
    (pc = "exit" /\ prog.args.kind = "ok") =>
        /\ exit_code \in {0, 1}
        /\ exit_code = 0 <=> FullSuccess
        /\ exit_code = 1 => (SomeCommandFailed \/ GuardTriggered)

\* C7 amended: a run that has ended has exit code 0, 1 or 2; 2 exactly when
\* the argument parser rejected the command line; 0 exactly when help was
\* asked for or the guard did not trigger and every command through the pull
\* (and the deletes, when affirmed) succeeded; 1 only when a command failed,
\* the guard triggered, or an exception went uncaught: no local-side entry in
\* the divergence list, or end-of-input at a yes/no question
C7_ExitCodes ==
    pc = "exit" =>
        /\ exit_code \in {0, 1, 2}
        /\ exit_code = 2 <=> prog.args.kind = "usage_error"
        /\ exit_code = 0 <=> (prog.args.kind = "help" \/ FullSuccess)
        /\ exit_code = 1 =>
              \/ SomeCommandFailed
              \/ GuardTriggered
              \/ NoLocalSideEntry
              \/ EndOfInputAtQuestion

\* C7 witness: a run ended with exit code 1 although every command succeeded
\* and the guard did not trigger
C7_Witness ==
    /\ pc = "exit"
    /\ exit_code = 1
    /\ NoLocalSideEntry
    /\ ~GuardTriggered
    /\ ~SomeCommandFailed

\* C8: with --assume-yes nothing is ever read from standard input, and a run
\* that ended in full success has deleted the feature branch locally and on
\* the remote and has the target branch checked out
C8_AssumeYes ==
    prog.args.assume_yes =>
        /\ stdin = <<>>
        /\ (pc = "exit" /\ exit_code = 0) =>
              /\ repo.branches[snapshot.head] = NoRef
              /\ repo.remote_branches[snapshot.head] = NoRef
              /\ snapshot.head # target_branch
              /\ repo.head = target_branch
              /\ repo.branches[target_branch] = repo.remote_branches[target_branch]

\* C8 witness: a squash run with --assume-yes and --message ended in success
C8_Witness ==
    /\ prog.args.assume_yes
    /\ prog.args.message = <<"m", " ">>
    /\ pc = "exit"
    /\ exit_code = 0
    /\ Done(<<"commit">>)
    /\ snapshot.branches[FeatureName] # NoRef

\* C9: once the divergence list has been read and holds no local-side entry,
\* the run is at the scan of the list or has ended with exit code 1, it has
\* issued the three rev-parse queries, the fetch and the rev-list and nothing
\* else, and the branches of the remote are as the run found them
C9_NoLocalCommitFails ==
    (Done(<<"rev-list">>) /\ \A i \in 1..Len(prog.commits) : prog.commits[i][1] # "<") =>
        /\ pc \in {"first_commit", "exit"}
        /\ pc = "exit" => exit_code = 1
        /\ Len(issued) = 5
        /\ \A i \in 1..Len(issued) : Verb(i) \in {<<"rev-parse">>, <<"fetch">>, <<"rev-list">>}
        /\ repo.remote_branches = snapshot.remote_branches
        /\ repo.branches = snapshot.branches

\* C9 witness: the list held entries of the remote side only and the run has
\* ended
C9_Witness ==
    /\ pc = "exit"
    /\ Done(<<"rev-list">>)
    /\ prog.commits # <<>>
    /\ \A i \in 1..Len(prog.commits) : prog.commits[i][1] = ">"

\* C10: the step in which a command fails and the run ends changes no branch,
\* no remote-tracking ref, no commit and no branch of the remote: what the
\* earlier steps did is still there when the run has ended
C10_FailureUndoesNothing ==
    [][(pc # "exit" /\ pc' = "exit" /\ exit_code' = 1) =>
          /\ repo'.objects = repo.objects
          /\ repo'.branches = repo.branches
          /\ repo'.head = repo.head
          /\ repo'.tracking = repo.tracking
          /\ repo'.remote_branches = repo.remote_branches]_vars

\* C10 witness: the run ended with exit code 1 after the force-push rewrote
\* the remote feature branch, and the remote target branch was not advanced
C10_Witness ==
    /\ pc = "exit"
    /\ exit_code = 1
    /\ DoneCmd(PushForceCmd)
    /\ repo.remote_branches[FeatureName] # snapshot.remote_branches[FeatureName]
    /\ ~IsAncestor(repo.objects, snapshot.remote_branches[FeatureName],
                   repo.remote_branches[FeatureName])
    /\ repo.remote_branches[target_branch] = snapshot.remote_branches[target_branch]

\* the commands of the tail of the workflow, told apart by their arguments
IsForcePush(i) == Verb(i) = <<"push">> /\ Cmd(i)[2] = <<"--force">>
IsRemoteDelete(i) == Verb(i) = <<"push">> /\ Cmd(i)[Len(Cmd(i))] = <<"--delete">>
IsTargetPush(i) == Verb(i) = <<"push">> /\ ~IsForcePush(i) /\ ~IsRemoteDelete(i)
IsCheckout(i) == Verb(i) = <<"checkout">>
IsPull(i) == Verb(i) = <<"pull">>
IsLocalDelete(i) == Verb(i) = <<"branch">>
Before(i) == i - 1
TailVerbs == {<<"push">>, <<"checkout">>, <<"pull">>, <<"branch">>}
TailCommands == {i \in 1..Len(issued) : Verb(i) \in TailVerbs}

\* C11: among the commands a run has issued, the push to the remote target
\* branch directly follows a force-push that succeeded, the checkout directly
\* follows a target push that succeeded, the pull directly follows a checkout
\* that succeeded, a branch delete follows a pull that succeeded, and each of
\* these commands is issued at most once
C11_TailOrdered ==
    LET tail == TailCommands IN
    /\ \A i \in tail :
          /\ IsTargetPush(i) =>
                (i > 1 /\ IsForcePush(Before(i)) /\ Succeeded(Before(i)))
          /\ IsCheckout(i) =>
                (i > 1 /\ IsTargetPush(Before(i)) /\ Succeeded(Before(i)))
          /\ IsPull(i) =>
                (i > 1 /\ IsCheckout(Before(i)) /\ Succeeded(Before(i)))
          /\ IsLocalDelete(i) =>
                (i > 1 /\ IsPull(Before(i)) /\ Succeeded(Before(i)))
          /\ IsRemoteDelete(i) =>
                \E j \in 1..(i - 1) : IsPull(j) /\ Succeeded(j)
    /\ Cardinality({i \in tail : IsForcePush(i)}) <= 1
    /\ Cardinality({i \in tail : IsTargetPush(i)}) <= 1
    /\ Cardinality({i \in tail : IsCheckout(i)}) <= 1
    /\ Cardinality({i \in tail : IsPull(i)}) <= 1
    /\ Cardinality({i \in tail : IsLocalDelete(i)}) <= 1
    /\ Cardinality({i \in tail : IsRemoteDelete(i)}) <= 1

\* C11 witness: both pushes succeeded, the checkout failed, and the run ended
\* there
C11_Witness ==
    /\ pc = "exit"
    /\ Len(issued) > 2
    /\ IsCheckout(Len(issued))
    /\ ~Succeeded(Len(issued))
    /\ IsTargetPush(Len(issued) - 1)
    /\ IsForcePush(Len(issued) - 2)

\* the delete question has been passed: the pull succeeded and the script is
\* beyond line 148 (without --assume-yes its answer is the last thing read)
PastDeleteQuestion == DoneCmd(PullCmd) /\ pc # "ask_delete"
DeleteAnswer == stdin[Len(stdin)]
DeleteDeclined ==
    /\ PastDeleteQuestion
    /\ ~prog.args.assume_yes
    /\ DeleteAnswer \notin {<<"y">>, <<"Y">>, EOF}
DeleteIssued == \E i \in 1..Len(issued) : IsLocalDelete(i) \/ IsRemoteDelete(i)

\* C12: a branch delete is issued only when the delete question was affirmed
\* (--assume-yes, or the answer y or Y); once affirmed, the local delete is the
\* command issued next after the pull; the remote delete directly follows a
\* local delete that succeeded; when the question was declined no delete is
\* issued and the run has ended with exit code 0
C12_DeleteIffAffirmed ==
    /\ DeleteIssued => (PastDeleteQuestion /\ DeleteAffirmed)
    /\ (PastDeleteQuestion /\ DeleteAffirmed) =>
          \/ pc = "branch_delete" /\ ~DeleteIssued
          \/ \E i \in 2..Len(issued) : IsLocalDelete(i) /\ Cmd(Before(i)) = PullCmd
    /\ \A i \in 1..Len(issued) :
          IsRemoteDelete(i) =>
             (i > 1 /\ IsLocalDelete(Before(i)) /\ Succeeded(Before(i)))
    /\ DeleteDeclined => (~DeleteIssued /\ pc = "exit" /\ exit_code = 0)

\* C12 witness: the answer was neither y nor Y, and the run ended with exit
\* code 0 having deleted nothing
C12_Witness ==
    /\ DeleteDeclined
    /\ DeleteAnswer = <<"y", "e", "s">>
    /\ pc = "exit"
    /\ exit_code = 0
    /\ repo.branches[FeatureName] # NoRef
    /\ repo.remote_branches[FeatureName] # NoRef

\* the reuse question was asked (squash path, no usable --message, no
\* --assume-yes) and the answer was not a yes: the message is typed in
ReuseDeclined ==
    /\ ~Truthy(prog.args.message)
    /\ ~prog.args.assume_yes
    /\ stdin # <<>>
    /\ stdin[1] \notin {<<"y">>, <<"Y">>, EOF}
    /\ Done(<<"reset">>)
\* the reads after the answer, up to the first end-of-input when there is one
EndOfInputSeen == \E e \in 2..Len(stdin) : stdin[e] = EOF
EndOfInput == CHOOSE e \in 2..Len(stdin) : stdin[e] = EOF /\ \A h \in 2..(e - 1) : stdin[h] # EOF
LinesTyped ==
    IF EndOfInputSeen THEN SubSeq(stdin, 2, EndOfInput - 1) ELSE SubSeq(stdin, 2, Len(stdin))
CommitIssued == \E i \in 1..Len(issued) : Verb(i) = <<"commit">>

\* C13: when the reuse question was declined and no line was elided, the
\* script stays in the message entry, with no commit issued, until
\* end-of-input is read; from then on the message, and the message of the
\* commit command, is the lines read before it, in order, joined by newlines
C13_TypedMessage ==
    (elided = 0 /\ ReuseDeclined) =>
        LET typed == LinesTyped IN
        /\ ~EndOfInputSeen =>
              (pc = "enter_message" /\ ~CommitIssued /\ prog.contents = typed)
        /\ EndOfInputSeen =>
              /\ pc # "enter_message"
              /\ prog.message = JoinNL(typed)
              /\ typed = <<>> => prog.message = <<>>
        /\ \A i \in 1..Len(issued) :
              Verb(i) = <<"commit">> =>
                 (EndOfInputSeen /\ Cmd(i) = <<<<"commit">>, <<"-m">>, JoinNL(typed)>>)

\* C13 witness: two lines were typed, the second one blank, and the commit
\* with the two lines joined by a newline was made
C13_Witness ==
    /\ ReuseDeclined
    /\ elided = 0
    /\ EndOfInputSeen
    /\ LinesTyped = <<<<"x", " ">>, <<>>>>
    /\ DoneCmd(<<<<"commit">>, <<"-m">>, <<"x", " ", NL>>>>)

\* the lines the subprocess of the latest call wrote, as they arrived
Arrived == runner.stream
HeaderLines == Len(Header(Cmd(Len(issued))))
DiagnosticPrinted ==
    \E k \in 1..Len(runner.printed) : runner.printed[k] = Diagnostic(runner.return_code)

\* C14: for the latest call of git(), whichever it is: every line the
\* subprocess wrote is captured, stripped, in arrival order, and printed in
\* that order behind the prefix, right after the command line; with exit code
\* zero nothing more than a blank line is printed and the captured lines are
\* returned to the caller; with a non-zero exit code the diagnostic is printed
\* after every output line, as the last line, nothing is returned and the run
\* has ended with exit code 1
C14_DrainedBeforeExitCode ==
    issued # <<>> =>
        LET arrived == Arrived
            header == HeaderLines
        IN
        /\ SubSeq(runner.printed, 1, header) = Header(Cmd(Len(issued)))
        /\ Len(runner.output) = Len(arrived)
        /\ \A i \in 1..Len(arrived) :
              /\ runner.output[i] = RStrip(arrived[i])
              /\ runner.printed[header + i] = <<Prefix>> \o runner.output[i]
        /\ runner.return_code = issued[Len(issued)].return_code
        /\ runner.return_code = 0 =>
              /\ Len(runner.printed) = header + Len(arrived) + 1
              /\ ~DiagnosticPrinted
              /\ runner.returned
        /\ runner.return_code # 0 =>
              /\ Len(runner.printed) = header + Len(arrived) + 3
              /\ runner.printed[Len(runner.printed)] = Diagnostic(runner.return_code)
              /\ \A k \in 1..(Len(runner.printed) - 1) :
                    runner.printed[k] # Diagnostic(runner.return_code)
              /\ ~runner.returned
              /\ pc = "exit"
              /\ exit_code = 1
        /\ Verb(Len(issued)) = <<"rev-list">> =>
              prog.commits = (IF runner.returned THEN runner.output ELSE <<>>)

\* C14 witness: a command wrote two lines and exited with code 128
C14_Witness ==
    /\ issued # <<>>
    /\ runner.return_code = 128
    /\ Len(runner.output) = 2
    /\ runner.output[1] # Arrived[1]
    /\ pc = "exit"

\* every commit that has been on the remote target branch: its history when
\* the run started, and what someone else pushed since
WasOnRemoteTarget ==
    Ancestors(snapshot.objects, snapshot.remote_branches[target_branch])
    \cup ({OthersCommit} \cap DOMAIN repo.objects)
Forced(i) == \E k \in 1..Len(Cmd(i)) : Cmd(i)[k] = <<"--force">>
NamesTarget(i) ==
    \E k \in 1..Len(Cmd(i)) : Cmd(i)[k] \in {target_branch, <<"HEAD", ":">> \o target_branch}

\* C15: every commit that has been on the remote target branch stays in its
\* history, so the run moves the remote target branch by fast-forward or not
\* at all; a command with --force is the push of HEAD to the feature branch's
\* name, which is not the target's, and no command that names the target
\* branch carries --force
C15_TargetNeverForced ==
    /\ WasOnRemoteTarget \subseteq
          Ancestors(repo.objects, repo.remote_branches[target_branch])
    /\ \A i \in 1..Len(issued) :
          /\ Forced(i) =>
                /\ Cmd(i) = <<<<"push">>, <<"--force">>, remote,
                              <<"HEAD", ":">> \o prog.feature_branch>>
                /\ prog.feature_branch # target_branch
          /\ NamesTarget(i) => ~Forced(i)

\* C15 witness: someone else pushed to the remote target after the run's
\* fetch; the run's force-push went through, its push to the target was
\* refused, and the other commit is still the remote target's tip
C15_Witness ==
    /\ pc = "exit"
    /\ DoneCmd(PushForceCmd)
    /\ Cmd(Len(issued)) = PushTargetCmd
    /\ ~Succeeded(Len(issued))
    /\ repo.remote_branches[target_branch] = OthersCommit
    /\ ~IsAncestor(repo.objects, OthersCommit, repo.remote_branches[FeatureName])

\* the branch a force-push or a delete names
BranchNamed(i) ==
    IF IsForcePush(i) THEN SubSeq(Cmd(i)[4], 3, Len(Cmd(i)[4])) ELSE Cmd(i)[3]

\* C16: a run whose feature-branch name is the target's never gets past the
\* guard and issues rev-parse queries only; every force-push and every local
\* or remote delete names the branch that was checked out when the run
\* started, which is not the target branch; and the target branch, locally
\* and on the remote, exists at every point of a run at whose start it existed
C16_TargetNeverDeleted ==
    /\ prog.feature_branch = target_branch =>
          /\ pc \in {"rev_parse_target", "rev_parse_feature", "guard", "exit"}
          /\ pc = "exit" => exit_code = 1
          /\ \A i \in 1..Len(issued) : Verb(i) = <<"rev-parse">>
    /\ \A i \in 1..Len(issued) :
          (IsForcePush(i) \/ IsLocalDelete(i) \/ IsRemoteDelete(i)) =>
             /\ BranchNamed(i) # target_branch
             /\ BranchNamed(i) = snapshot.head
             /\ BranchNamed(i) = prog.feature_branch
    /\ snapshot.branches[target_branch] # NoRef => repo.branches[target_branch] # NoRef
    /\ snapshot.remote_branches[target_branch] # NoRef =>
          repo.remote_branches[target_branch] # NoRef

\* C16 witness: the feature branch was deleted locally and on the remote after
\* the target branch was checked out, and the target branch is still there
C16_Witness ==
    /\ DoneCmd(PushDeleteCmd)
    /\ repo.head = target_branch
    /\ repo.branches[FeatureName] = NoRef
    /\ repo.remote_branches[FeatureName] = NoRef
    /\ repo.branches[target_branch] # NoRef
    /\ repo.remote_branches[target_branch] # NoRef
    /\ repo.remote_branches[target_branch] # snapshot.remote_branches[target_branch]

\* the statements in program order (the rebase path and the squash path both
\* lead to the force-push)
ProgramOrder ==
    <<"parse", "rev_parse_abbrev_ref", "rev_parse_target", "rev_parse_feature",
      "guard", "fetch", "rev_list", "first_commit", "rev_parse_head", "rebase",
      "show", "merge", "reset", "resolve_message", "enter_message", "commit",
      "push_force", "push", "checkout", "pull", "ask_delete", "branch_delete",
      "push_delete", "good_bye", "exit">>
Position(p) == CHOOSE i \in 1..Len(ProgramOrder) : ProgramOrder[i] = p
Terminated == pc = "exit"
\* within a run the script only moves forward; it stays at a statement only
\* in the message entry loop (or while it is not the script that steps)
OnlyForward ==
    /\ (pc' # pc /\ run' = run) => Position(pc') > Position(pc)
    /\ (pc' = pc /\ <<prog, issued, stdin, elided>>' # <<prog, issued, stdin, elided>>) =>
          pc = "enter_message"

\* C17 as stated: no statement is ever gone back to, and every run terminates
\* (whenever a run is in progress it has ended some time later)
C17_Original ==
    /\ [][OnlyForward]_vars
    /\ []<>Terminated

\* C17 amended: no statement is ever gone back to, and every run terminates
\* (whenever a run is in progress it has ended some time later) unless one
\* stays in the message entry loop for ever, reading line after line with no
\* end-of-input
C17_TerminatesWhenInputEnds ==
    /\ [][OnlyForward]_vars
    /\ \/ []<>Terminated
       \/ <>[](pc = "enter_message" /\ ~EndOfInputSeen)

\* C17 witness: a run has terminated with exit code 0 after the message entry
\* read more than MaxLines lines before end-of-input
C17_Witness ==
    /\ Terminated
    /\ exit_code = 0
    /\ elided > 0
    /\ Done(<<"commit">>)
====
